---------------------------- MODULE Spec2Model ----------------------------
(***************************************************************************)
(* A model of iron-cors (src/src/lib.rs): the CORS middleware that wraps a *)
(* downstream Iron handler, in its two modes (whitelist and allow-any).    *)
(*                                                                         *)
(* A worker thread takes one request at a time through                     *)
(*   idle -> received -> (calling ->) done -> idle.                        *)
(* Everything the middleware does is synchronous except the call of the    *)
(* downstream handler, so a request is handled in two steps: the code up   *)
(* to `self.handler.handle(req)` (or up to the `return` that answers       *)
(* without it), and the closures applied to the handler's result.          *)
(***************************************************************************)
EXTENDS Integers, Sequences, FiniteSets, TLC

(***************************************************************************)
(* Bounds of the model.                                                    *)
(***************************************************************************)
\* worker threads that handle requests concurrently (ConcSpec)
NumThreads == 2
\* longest Access-Control-Request-Headers list a request carries
MaxHeaders == 2

(***************************************************************************)
(* Option<T>: None is the empty sequence, Some(x) the one-element one.     *)
(***************************************************************************)
None == <<>>
Some(x) == <<x>>

(***************************************************************************)
(* Status codes used by the middleware, the tests' handlers.               *)
(***************************************************************************)
status_Ok == 200
status_BadRequest == 400
status_Forbidden == 403
status_InternalServerError == 500

(***************************************************************************)
(* headers::Origin { scheme, host: Host { hostname, port: Option<u16> } }  *)
(***************************************************************************)
Origin_new(scheme, hostname, port) ==
    [scheme |-> scheme, host |-> [hostname |-> hostname, port |-> port]]

(***************************************************************************)
(* Faulty variants of the code are defined next to the definition they     *)
(* vary; each property below distinguishes the code from one of them.      *)
(***************************************************************************)
\* variant: the port is left out of the formatted origin
format_cors_origin_without_port(origin) ==
    origin.scheme \o "://" \o origin.host.hostname

(***************************************************************************)
(* fn format_cors_origin(origin) -> String                                 *)
(***************************************************************************)
format_cors_origin(origin) ==
    IF origin.host.port # None
    THEN origin.scheme \o "://" \o origin.host.hostname \o ":"
             \o ToString(origin.host.port[1])
    ELSE origin.scheme \o "://" \o origin.host.hostname

(***************************************************************************)
(* headers::Headers: a typed map with at most one value per header.  The   *)
(* field set_log is instrumentation: the names of the headers that the     *)
(* middleware set on this map, in order.                                   *)
(***************************************************************************)
Headers_new ==
    [Origin                        |-> None,
     AccessControlRequestMethod    |-> None,
     AccessControlRequestHeaders   |-> None,
     AccessControlAllowOrigin      |-> None,
     AccessControlAllowMethods     |-> None,
     AccessControlAllowHeaders     |-> None,
     ContentType                   |-> None,
     set_log                       |-> <<>>]

\* variant: the value is added to the values the header already has
headers_set_append(headers, name, value) ==
    [headers EXCEPT ![name] = Append(@, value), !.set_log = Append(@, name)]

\* headers.set(H(value)): replaces whatever value the header had
headers_set(headers, name, value) ==
    [headers EXCEPT ![name] = Some(value), !.set_log = Append(@, name)]

\* headers::AccessControlAllowOrigin::{Any, Value(String)}
AccessControlAllowOrigin_Any == [tag |-> "Any"]
AccessControlAllowOrigin_Value(s) == [tag |-> "Value", value |-> s]

(***************************************************************************)
(* Response::with((status, body)) and IronResult<Response>.  An IronError  *)
(* carries its own response; its error value is opaque to the middleware.  *)
(***************************************************************************)
Response_with(status, body) ==
    [headers |-> Headers_new, status |-> status, body |-> body]

Ok(response) == [response |-> response, kind |-> "Ok"]
Err(response) == [response |-> response, kind |-> "Err"]

(***************************************************************************)
(* What the code before the downstream call ends with: it either returns   *)
(* a result of its own, or it calls self.handler.handle(req) and then      *)
(* (decorate) applies the map / map_err closures to what comes back.       *)
(***************************************************************************)
Return(result) == [kind |-> "Return", result |-> result]
Delegate(decorate) == [kind |-> "Delegate", decorate |-> decorate]

(***************************************************************************)
(* impl CorsHandlerWhitelist                                               *)
(***************************************************************************)
\* variant: the wildcard is sent instead of the request's origin
CorsHandlerWhitelist_add_cors_header_wildcard(headers, origin) ==
    headers_set(headers, "AccessControlAllowOrigin", AccessControlAllowOrigin_Any)

CorsHandlerWhitelist_add_cors_header(headers, origin) ==
    LET header == format_cors_origin(origin)
    IN  headers_set(headers, "AccessControlAllowOrigin",
                    AccessControlAllowOrigin_Value(header))

\* the sequence without the repetitions of its elements
RemoveDuplicates(seq) ==
    LET kept[i \in 0..Len(seq)] ==
            IF i = 0 THEN <<>>
            ELSE IF \E j \in 1..(i - 1) : seq[j] = seq[i]
                 THEN kept[i - 1]
                 ELSE Append(kept[i - 1], seq[i])
    IN  kept[Len(seq)]

\* variant: the requested headers are echoed without their repetitions
CorsHandlerWhitelist_add_cors_preflight_headers_dedup(headers, origin, acrm, acrh) ==
    LET h1 == headers_set(headers, "AccessControlAllowOrigin",
                  AccessControlAllowOrigin_Value(format_cors_origin(origin)))
        h2 == headers_set(h1, "AccessControlAllowMethods", <<acrm>>)
    IN  IF acrh # None
        THEN headers_set(h2, "AccessControlAllowHeaders", RemoveDuplicates(acrh[1]))
        ELSE h2

CorsHandlerWhitelist_add_cors_preflight_headers(headers, origin, acrm, acrh) ==
    LET h1 == CorsHandlerWhitelist_add_cors_header(headers, origin)
        h2 == headers_set(h1, "AccessControlAllowMethods", <<acrm>>)
    IN  IF acrh # None
        THEN headers_set(h2, "AccessControlAllowHeaders", acrh[1])
        ELSE h2

\* variant: the handler is called before the origin is looked at
CorsHandlerWhitelist_process_possible_cors_request_call_first(allowed_hosts, req, origin) ==
    LET may_process == format_cors_origin(origin) \in allowed_hosts
    IN  Delegate(may_process)

CorsHandlerWhitelist_process_possible_cors_request(allowed_hosts, req, origin) ==
    LET may_process == format_cors_origin(origin) \in allowed_hosts
    IN  IF may_process
        THEN Delegate(TRUE)
        ELSE Return(Ok(Response_with(status_BadRequest,
                          "Invalid CORS request: Origin not allowed")))

\* variant: a preflight is answered without the origin being verified
CorsHandlerWhitelist_process_possible_preflight_unverified(allowed_hosts, req, origin) ==
    LET acrm == req.headers.AccessControlRequestMethod
        acrh == req.headers.AccessControlRequestHeaders
        response == Response_with(status_Ok, "")
    IN  IF acrm # None
        THEN Return(Ok([response EXCEPT !.headers =
                 CorsHandlerWhitelist_add_cors_preflight_headers(
                     @, origin, acrm[1], acrh)]))
        ELSE CorsHandlerWhitelist_process_possible_cors_request(
                 allowed_hosts, req, origin)

CorsHandlerWhitelist_process_possible_preflight(allowed_hosts, req, origin) ==
    LET may_process == format_cors_origin(origin) \in allowed_hosts
        acrm == req.headers.AccessControlRequestMethod
        acrh == req.headers.AccessControlRequestHeaders
        response == Response_with(status_Ok, "")
    IN  IF ~may_process
        THEN Return(Ok(Response_with(status_BadRequest,
                          "Invalid CORS request: Origin not allowed")))
        ELSE IF acrm # None
        THEN Return(Ok([response EXCEPT !.headers =
                 CorsHandlerWhitelist_add_cors_preflight_headers(
                     @, origin, acrm[1], acrh)]))
        ELSE CorsHandlerWhitelist_process_possible_cors_request(
                 allowed_hosts, req, origin)

\* variant: a request without Origin is refused instead of passed on
CorsHandlerWhitelist_handle_strict(allowed_hosts, req) ==
    IF req.headers.Origin = None
    THEN Return(Ok(Response_with(status_BadRequest,
                      "Invalid CORS request: Origin header missing")))
    ELSE LET origin == req.headers.Origin[1]
         IN  IF req.method = "Options"
             THEN CorsHandlerWhitelist_process_possible_preflight(
                      allowed_hosts, req, origin)
             ELSE CorsHandlerWhitelist_process_possible_cors_request(
                      allowed_hosts, req, origin)

\* impl Handler for CorsHandlerWhitelist: handle, up to the downstream call
CorsHandlerWhitelist_handle(allowed_hosts, req) ==
    IF req.headers.Origin = None
    THEN Delegate(FALSE)
    ELSE LET origin == req.headers.Origin[1]
         IN  IF req.method = "Options"
             THEN CorsHandlerWhitelist_process_possible_preflight(
                      allowed_hosts, req, origin)
             ELSE CorsHandlerWhitelist_process_possible_cors_request(
                      allowed_hosts, req, origin)

\* variant: map without map_err, an error's response is left as it came
CorsHandlerWhitelist_map_result_ok_only(res, origin) ==
    IF res.kind = "Ok"
    THEN Ok([res.response EXCEPT !.headers =
                CorsHandlerWhitelist_add_cors_header(@, origin)])
    ELSE res

\* .map(|mut res| ..).map_err(|mut err| ..) of process_possible_cors_request
CorsHandlerWhitelist_map_result(res, origin) ==
    IF res.kind = "Ok"
    THEN Ok([res.response EXCEPT !.headers =
                CorsHandlerWhitelist_add_cors_header(@, origin)])
    ELSE Err([res.response EXCEPT !.headers =
                CorsHandlerWhitelist_add_cors_header(@, origin)])

(***************************************************************************)
(* impl CorsHandlerAllowAny                                                *)
(***************************************************************************)
CorsHandlerAllowAny_add_cors_header(headers) ==
    headers_set(headers, "AccessControlAllowOrigin", AccessControlAllowOrigin_Any)

\* variant: the preflight answer lacks the allow-origin header
CorsHandlerAllowAny_add_cors_preflight_headers_no_origin(headers, acrm, acrh) ==
    LET h2 == headers_set(headers, "AccessControlAllowMethods", <<acrm>>)
    IN  IF acrh # None
        THEN headers_set(h2, "AccessControlAllowHeaders", acrh[1])
        ELSE h2

CorsHandlerAllowAny_add_cors_preflight_headers(headers, acrm, acrh) ==
    LET h1 == CorsHandlerAllowAny_add_cors_header(headers)
        h2 == headers_set(h1, "AccessControlAllowMethods", <<acrm>>)
    IN  IF acrh # None
        THEN headers_set(h2, "AccessControlAllowHeaders", acrh[1])
        ELSE h2

CorsHandlerAllowAny_process_possible_cors_request(req) ==
    Delegate(TRUE)

\* variant: every OPTIONS request with an Origin is answered as a preflight
CorsHandlerAllowAny_process_possible_preflight_every_options(req) ==
    LET acrm == req.headers.AccessControlRequestMethod
        acrh == req.headers.AccessControlRequestHeaders
        response == Response_with(status_Ok, "")
    IN  IF acrm # None
        THEN Return(Ok([response EXCEPT !.headers =
                 CorsHandlerAllowAny_add_cors_preflight_headers(@, acrm[1], acrh)]))
        ELSE Return(Ok([response EXCEPT !.headers =
                 IF acrh # None
                 THEN headers_set(CorsHandlerAllowAny_add_cors_header(@),
                                  "AccessControlAllowHeaders", acrh[1])
                 ELSE CorsHandlerAllowAny_add_cors_header(@)]))

CorsHandlerAllowAny_process_possible_preflight(req) ==
    LET acrm == req.headers.AccessControlRequestMethod
        acrh == req.headers.AccessControlRequestHeaders
        response == Response_with(status_Ok, "")
    IN  IF acrm # None
        THEN Return(Ok([response EXCEPT !.headers =
                 CorsHandlerAllowAny_add_cors_preflight_headers(@, acrm[1], acrh)]))
        ELSE CorsHandlerAllowAny_process_possible_cors_request(req)

\* variant: the header is added whether or not the request has an Origin
CorsHandlerAllowAny_handle_always_decorate(req) ==
    IF req.headers.Origin # None /\ req.method = "Options"
    THEN CorsHandlerAllowAny_process_possible_preflight(req)
    ELSE CorsHandlerAllowAny_process_possible_cors_request(req)

\* impl Handler for CorsHandlerAllowAny: handle, up to the downstream call
CorsHandlerAllowAny_handle(req) ==
    IF req.headers.Origin = None
    THEN Delegate(FALSE)
    ELSE IF req.method = "Options"
         THEN CorsHandlerAllowAny_process_possible_preflight(req)
         ELSE CorsHandlerAllowAny_process_possible_cors_request(req)

\* .map(|mut res| ..).map_err(|mut err| ..) of process_possible_cors_request
CorsHandlerAllowAny_map_result(res) ==
    IF res.kind = "Ok"
    THEN Ok([res.response EXCEPT !.headers = CorsHandlerAllowAny_add_cors_header(@)])
    ELSE Err([res.response EXCEPT !.headers = CorsHandlerAllowAny_add_cors_header(@)])

(***************************************************************************)
(* Inputs: configurations, requests, and what the downstream handler may   *)
(* answer.                                                                 *)
(***************************************************************************)
Schemes == {"http", "https"}
Hostnames == {"example.com", "forbidden.org"}
Ports == {None, Some(3000)}
Origins == {Origin_new(s, h, p) : s \in Schemes, h \in Hostnames, p \in Ports}

Methods == {"Get", "Options"}
RequestedMethods == {"Get", "Put"}
RequestedHeaderNames == {"header1", "header2"}

Optional(S) == {None} \cup {Some(x) : x \in S}
SeqsUpTo(S, n) == UNION {[1..k -> S] : k \in 0..n}

Request_new(method, origin, acrm, acrh) ==
    [headers |-> [Headers_new EXCEPT !.Origin = origin,
                                     !.AccessControlRequestMethod = acrm,
                                     !.AccessControlRequestHeaders = acrh],
     method  |-> method]

Requests ==
    {Request_new(m, o, am, ah) :
        m \in Methods, o \in Optional(Origins), am \in Optional(RequestedMethods),
        ah \in Optional(SeqsUpTo(RequestedHeaderNames, MaxHeaders))}

\* the requests of the concurrent specification: one scheme and host, the
\* port present or not, no Access-Control-Request-Headers
ConcRequests ==
    {r \in Requests :
        /\ r.headers.AccessControlRequestHeaders = None
        /\ r.headers.AccessControlRequestMethod \in {None, Some("Get")}
        /\ r.headers.Origin # None =>
              /\ r.headers.Origin[1].scheme = "http"
              /\ r.headers.Origin[1].host.hostname = "example.com"}

\* CorsMiddleware::with_whitelist(allowed_hosts): any set of strings
WhitelistEntries ==
    {"example.com", "http://example.com", "http://example.com:3000",
     "https://forbidden.org"}

\* CorsMiddleware { allowed_hosts: Option<HashSet<String>> }
with_whitelist(allowed_hosts) == Some(allowed_hosts)
with_allow_any == None

Configs == {with_allow_any} \cup {with_whitelist(w) : w \in SUBSET WhitelistEntries}
ConcConfigs ==
    {with_allow_any,
     with_whitelist({"http://example.com"}),
     with_whitelist({"http://example.com", "http://example.com:3000"})}

\* headers a downstream handler may have set on its response
DownstreamHeaders ==
    {Headers_new,
     [Headers_new EXCEPT !.ContentType = Some("text/plain")],
     [Headers_new EXCEPT !.ContentType = Some("text/plain"),
                         !.AccessControlAllowOrigin =
                             Some(AccessControlAllowOrigin_Value("http://downstream.example"))]}

\* HelloWorldHandler, ForbiddenHandler, ErrorResultHandler of the tests
HelloWorldHandler == Ok(Response_with(status_Ok, "Hello, world!"))
ForbiddenHandler == Ok(Response_with(status_Forbidden, "You shall not pass!"))
ErrorResultHandler == Err(Response_with(status_InternalServerError, "Oh noes"))

DownstreamResults ==
    {[r EXCEPT !.response.headers = h] :
        r \in {HelloWorldHandler, ForbiddenHandler, ErrorResultHandler},
        h \in DownstreamHeaders}
ConcDownstreamResults == {HelloWorldHandler, ErrorResultHandler}

\* the inputs of a specification, by the name of its load
RequestsOf(load) == IF load = "concurrent" THEN ConcRequests ELSE Requests
DownstreamResultsOf(load) ==
    IF load = "concurrent" THEN ConcDownstreamResults ELSE DownstreamResults

(***************************************************************************)
(* State.                                                                  *)
(***************************************************************************)
VARIABLES
    allowed_hosts,   \* CorsMiddleware.allowed_hosts, fixed at construction
    pc,              \* per thread: "idle", "received", "calling", "done"
    request,         \* per thread: the request being handled (None if idle)
    origin,          \* per thread: the local `origin` of handle (a clone)
    decorate,        \* per thread: whether map/map_err await the handler's result
    calls,           \* per thread: downstream invocations for this request
    downstream,      \* per thread: what the downstream handler returned
    result           \* per thread: the middleware's result for this request

vars == <<allowed_hosts, pc, request, origin, decorate, calls, downstream, result>>

InitWith(threads, configs) ==
    /\ allowed_hosts \in configs
    /\ pc = [t \in threads |-> "idle"]
    /\ request = [t \in threads |-> None]
    /\ origin = [t \in threads |-> None]
    /\ decorate = [t \in threads |-> FALSE]
    /\ calls = [t \in threads |-> 0]
    /\ downstream = [t \in threads |-> None]
    /\ result = [t \in threads |-> None]

\* the server hands a request to an idle worker thread
Receive(t, load) ==
    /\ pc[t] = "idle"
    /\ \E req \in RequestsOf(load) :
          request' = [request EXCEPT ![t] = Some(req)]
    /\ pc' = [pc EXCEPT ![t] = "received"]
    /\ UNCHANGED <<allowed_hosts, origin, decorate, calls, downstream, result>>

\* the code of handle up to its first return or to self.handler.handle(req)
Enter(t, outcome) ==
    /\ origin' = [origin EXCEPT ![t] = request[t][1].headers.Origin]
    /\ IF outcome.kind = "Return"
       THEN /\ result' = [result EXCEPT ![t] = Some(outcome.result)]
            /\ pc' = [pc EXCEPT ![t] = "done"]
            /\ UNCHANGED <<decorate, calls>>
       ELSE /\ decorate' = [decorate EXCEPT ![t] = outcome.decorate]
            /\ calls' = [calls EXCEPT ![t] = @ + 1]
            /\ pc' = [pc EXCEPT ![t] = "calling"]
            /\ UNCHANGED result
    /\ UNCHANGED <<allowed_hosts, request, downstream>>

\* variant: the origin is kept in one slot that the first request in flight
\* fills, instead of in a local of handle
shared_origin(origins, t) ==
    origins[CHOOSE u \in DOMAIN origins : origins[u] # None][1]

\* the origin the closures of process_possible_cors_request captured
captured_origin(origins, t) == origins[t][1]

WhitelistHandle(t) ==
    /\ pc[t] = "received"
    /\ allowed_hosts # None
    /\ Enter(t, CorsHandlerWhitelist_handle(allowed_hosts[1], request[t][1]))

AllowAnyHandle(t) ==
    /\ pc[t] = "received"
    /\ allowed_hosts = None
    /\ Enter(t, CorsHandlerAllowAny_handle(request[t][1]))

\* the downstream handler returns; the whitelist handler finishes
WhitelistReturn(t, load) ==
    /\ pc[t] = "calling"
    /\ allowed_hosts # None
    /\ \E res \in DownstreamResultsOf(load) :
          /\ downstream' = [downstream EXCEPT ![t] = Some(res)]
          /\ result' = [result EXCEPT ![t] =
                Some(IF decorate[t]
                     THEN CorsHandlerWhitelist_map_result(res, captured_origin(origin, t))
                     ELSE res)]
    /\ pc' = [pc EXCEPT ![t] = "done"]
    /\ UNCHANGED <<allowed_hosts, request, origin, decorate, calls>>

\* the downstream handler returns; the allow-any handler finishes
AllowAnyReturn(t, load) ==
    /\ pc[t] = "calling"
    /\ allowed_hosts = None
    /\ \E res \in DownstreamResultsOf(load) :
          /\ downstream' = [downstream EXCEPT ![t] = Some(res)]
          /\ result' = [result EXCEPT ![t] =
                Some(IF decorate[t] THEN CorsHandlerAllowAny_map_result(res) ELSE res)]
    /\ pc' = [pc EXCEPT ![t] = "done"]
    /\ UNCHANGED <<allowed_hosts, request, origin, decorate, calls>>

\* the server writes the result out and the thread is free again
Respond(t) ==
    /\ pc[t] = "done"
    /\ pc' = [pc EXCEPT ![t] = "idle"]
    /\ request' = [request EXCEPT ![t] = None]
    /\ origin' = [origin EXCEPT ![t] = None]
    /\ decorate' = [decorate EXCEPT ![t] = FALSE]
    /\ calls' = [calls EXCEPT ![t] = 0]
    /\ downstream' = [downstream EXCEPT ![t] = None]
    /\ result' = [result EXCEPT ![t] = None]
    /\ UNCHANGED allowed_hosts

Threads == 1..NumThreads
\* the single worker thread of Spec
MainThread == {1}

\* one worker thread, every request and downstream answer of the model
Init == InitWith(MainThread, Configs)
Next ==
    \/ \E t \in MainThread : Receive(t, "full")
    \/ \E t \in MainThread : WhitelistHandle(t)
    \/ \E t \in MainThread : AllowAnyHandle(t)
    \/ \E t \in MainThread : WhitelistReturn(t, "full")
    \/ \E t \in MainThread : AllowAnyReturn(t, "full")
    \/ \E t \in MainThread : Respond(t)
Spec == Init /\ [][Next]_vars

\* NumThreads worker threads sharing one configuration
ConcInit == InitWith(Threads, ConcConfigs)
ConcNext ==
    \/ \E t \in Threads : Receive(t, "concurrent")
    \/ \E t \in Threads : WhitelistHandle(t)
    \/ \E t \in Threads : AllowAnyHandle(t)
    \/ \E t \in Threads : WhitelistReturn(t, "concurrent")
    \/ \E t \in Threads : AllowAnyReturn(t, "concurrent")
    \/ \E t \in Threads : Respond(t)
ConcSpec == ConcInit /\ [][ConcNext]_vars

(***************************************************************************)
(* Vocabulary of the properties below.  CanonicalForm is the canonical     *)
(* string form of an origin as the specification words it (scheme://host   *)
(* or scheme://host:port), stated apart from the code's format_cors_origin.*)
(***************************************************************************)
CanonicalForm(o) ==
    IF o.host.port = None
    THEN o.scheme \o "://" \o o.host.hostname
    ELSE o.scheme \o "://" \o o.host.hostname \o ":" \o ToString(o.host.port[1])

IsWhitelist == allowed_hosts # None
Whitelist == allowed_hosts[1]
Req(t) == request[t][1]
Res(t) == result[t][1]
Down(t) == downstream[t][1]
IsDone(t) == pc[t] = "done"
HasOrigin(t) == Req(t).headers.Origin # None
OriginOf(t) == Req(t).headers.Origin[1]
IsPreflight(t) ==
    /\ Req(t).method = "Options"
    /\ HasOrigin(t)
    /\ Req(t).headers.AccessControlRequestMethod # None
\* the policy's decision for a request that carries an Origin
PolicyAllows(t) ==
    HasOrigin(t) /\ (IsWhitelist => CanonicalForm(OriginOf(t)) \in Whitelist)
PolicyRejects(t) ==
    HasOrigin(t) /\ IsWhitelist /\ CanonicalForm(OriginOf(t)) \notin Whitelist
DecisionValue(t) ==
    IF IsWhitelist
    THEN AccessControlAllowOrigin_Value(CanonicalForm(OriginOf(t)))
    ELSE AccessControlAllowOrigin_Any
NoCorsHeaders(headers) ==
    /\ headers.AccessControlAllowOrigin = None
    /\ headers.AccessControlAllowMethods = None
    /\ headers.AccessControlAllowHeaders = None
\* how often the middleware set the named header on this map
SetCount(headers, name) ==
    Cardinality({i \in DOMAIN headers.set_log : headers.set_log[i] = name})
IsRejection(res, body) ==
    /\ res.kind = "Ok"
    /\ res.response.status = 400
    /\ res.response.body = body
    /\ NoCorsHeaders(res.response.headers)

(***************************************************************************)
(* C1.  In whitelist mode, a request that is not a preflight and whose     *)
(* Origin has a canonical form E that is a whitelist entry is allowed: the *)
(* downstream handler is invoked and the result carries                    *)
(* Access-Control-Allow-Origin with the value E.                           *)
(***************************************************************************)
C1_WhitelistedOriginAllowed ==
    \A t \in DOMAIN pc :
        (/\ pc[t] \in {"calling", "done"}
         /\ IsWhitelist
         /\ HasOrigin(t)
         /\ ~IsPreflight(t)
         /\ CanonicalForm(OriginOf(t)) \in Whitelist)
        => /\ calls[t] = 1
           /\ IsDone(t) =>
                /\ downstream[t] # None
                /\ Res(t).response.headers.AccessControlAllowOrigin =
                     Some(AccessControlAllowOrigin_Value(CanonicalForm(OriginOf(t))))

C1_Witness ==
    \E t \in DOMAIN pc :
        /\ IsDone(t)
        /\ IsWhitelist
        /\ HasOrigin(t)
        /\ ~IsPreflight(t)
        /\ OriginOf(t) = Origin_new("http", "example.com", Some(3000))
        /\ "http://example.com:3000" \in Whitelist
        /\ Res(t).response.headers.AccessControlAllowOrigin =
             Some(AccessControlAllowOrigin_Value("http://example.com:3000"))

C3_Original_MissingOriginRejected ==
    \A t \in DOMAIN pc :
        (pc[t] \in {"calling", "done"} /\ IsWhitelist /\ ~HasOrigin(t))
        => /\ IsDone(t)
           /\ IsRejection(Res(t), "Invalid CORS request: Origin header missing")
           /\ calls[t] = 0

(***************************************************************************)
(* C3 as amended: in whitelist mode, as in allow-any mode, a request       *)
(* without Origin is never rejected by the middleware: the downstream      *)
(* handler is invoked once, the middleware sets no header on the result,   *)
(* and the result is not the "Origin header missing" rejection.            *)
(***************************************************************************)
C3_MissingOriginNotRejected ==
    \A t \in DOMAIN pc :
        (pc[t] \in {"calling", "done"} /\ ~HasOrigin(t))
        => /\ calls[t] = 1
           /\ IsDone(t) =>
                /\ Res(t).response.headers.set_log = <<>>
                /\ Res(t).response.body # "Invalid CORS request: Origin header missing"

C3_Witness ==
    \E t \in DOMAIN pc :
        /\ IsDone(t)
        /\ IsWhitelist
        /\ ~HasOrigin(t)
        /\ calls[t] = 1
        /\ Res(t).response.status = 200
        /\ Res(t).response.body = "Hello, world!"

(***************************************************************************)
(* C4.  In both modes a request without Origin, whatever its method, is    *)
(* handled as usual: the downstream handler is invoked and its result is   *)
(* returned as it is (same kind, status, body), with no                    *)
(* Access-Control-Allow-Origin header added.                               *)
(***************************************************************************)
C4_MissingOriginPassThrough ==
    \A t \in DOMAIN pc :
        (IsDone(t) /\ ~HasOrigin(t))
        => /\ downstream[t] # None
           /\ Res(t).kind = Down(t).kind
           /\ Res(t).response.status = Down(t).response.status
           /\ Res(t).response.body = Down(t).response.body
           /\ Res(t).response.headers.AccessControlAllowOrigin =
                Down(t).response.headers.AccessControlAllowOrigin
           /\ SetCount(Res(t).response.headers, "AccessControlAllowOrigin") = 0

C4_Witness ==
    \E t \in DOMAIN pc :
        /\ IsDone(t)
        /\ ~IsWhitelist
        /\ ~HasOrigin(t)
        /\ Req(t).method = "Options"
        /\ Req(t).headers.AccessControlRequestMethod # None
        /\ Res(t) = HelloWorldHandler
        /\ Res(t).response.headers.AccessControlAllowOrigin = None

(***************************************************************************)
(* C5.  In allow-any mode every request that carries an Origin (simple or  *)
(* preflight, downstream success or error) gets Access-Control-Allow-Origin*)
(* with the wildcard, never the request's own origin string.               *)
(***************************************************************************)
C5_AllowAnyWildcard ==
    \A t \in DOMAIN pc :
        (IsDone(t) /\ ~IsWhitelist /\ HasOrigin(t))
        => /\ Res(t).response.headers.AccessControlAllowOrigin =
                Some(AccessControlAllowOrigin_Any)
           /\ Res(t).response.headers.AccessControlAllowOrigin #
                Some(AccessControlAllowOrigin_Value(CanonicalForm(OriginOf(t))))

C5_Witness ==
    \E t \in DOMAIN pc :
        /\ IsDone(t)
        /\ ~IsWhitelist
        /\ HasOrigin(t)
        /\ Res(t).kind = "Err"
        /\ Res(t).response.headers.AccessControlAllowOrigin =
             Some(AccessControlAllowOrigin_Any)

(***************************************************************************)
(* C6.  A preflight (OPTIONS, Origin, Access-Control-Request-Method) whose *)
(* origin the policy allows is answered by the middleware itself, without  *)
(* the downstream handler: 200, empty body, allow-origin with the          *)
(* decision's value, allow-methods the one-element list of the requested   *)
(* method, allow-headers the requested header sequence as it came (same    *)
(* order, repetitions kept) when the request has one, absent when not.     *)
(***************************************************************************)
C6_AllowedPreflightAnswered ==
    \A t \in DOMAIN pc :
        (pc[t] \in {"calling", "done"} /\ IsPreflight(t) /\ PolicyAllows(t))
        => /\ IsDone(t)
           /\ calls[t] = 0
           /\ downstream[t] = None
           /\ Res(t).kind = "Ok"
           /\ Res(t).response.status = 200
           /\ Res(t).response.body = ""
           /\ Res(t).response.headers.AccessControlAllowOrigin =
                Some(DecisionValue(t))
           /\ Res(t).response.headers.AccessControlAllowMethods =
                Some(<<Req(t).headers.AccessControlRequestMethod[1]>>)
           /\ Res(t).response.headers.AccessControlAllowHeaders =
                Req(t).headers.AccessControlRequestHeaders

C6_Witness ==
    \E t \in DOMAIN pc :
        /\ IsDone(t)
        /\ IsWhitelist
        /\ IsPreflight(t)
        /\ PolicyAllows(t)
        /\ Req(t).headers.AccessControlRequestMethod = Some("Put")
        /\ Req(t).headers.AccessControlRequestHeaders = Some(<<"header2", "header2">>)
        /\ Res(t).response.headers.AccessControlAllowHeaders =
             Some(<<"header2", "header2">>)

(***************************************************************************)
(* C7.  For an allowed request that is not a preflight the middleware's    *)
(* result is the downstream handler's result of the same kind (success or  *)
(* error), status and body unchanged, with the allow-origin header         *)
(* attached to the response or to the error's response.                    *)
(***************************************************************************)
C7_AllowedResultDecorated ==
    \A t \in DOMAIN pc :
        (IsDone(t) /\ PolicyAllows(t) /\ ~IsPreflight(t))
        => /\ downstream[t] # None
           /\ Res(t).kind = Down(t).kind
           /\ Res(t).response.status = Down(t).response.status
           /\ Res(t).response.body = Down(t).response.body
           /\ Res(t).response.headers.AccessControlAllowOrigin =
                Some(DecisionValue(t))

C7_Witness ==
    \E t \in DOMAIN pc :
        /\ IsDone(t)
        /\ IsWhitelist
        /\ PolicyAllows(t)
        /\ ~IsPreflight(t)
        /\ Res(t).kind = "Err"
        /\ Res(t).response.status = 500
        /\ Res(t).response.body = "Oh noes"
        /\ Res(t).response.headers.AccessControlAllowOrigin = Some(DecisionValue(t))

(***************************************************************************)
(* C8 as stated: in whitelist mode the whitelist holds host strings and    *)
(* only the host is matched: a request whose Origin host is a whitelisted  *)
(* host string is allowed and receives Access-Control-Allow-Origin,        *)
(* whatever its port and scheme.                                           *)
(***************************************************************************)
C8_HostOnlyMatch ==
    \A t \in DOMAIN pc :
        (/\ IsDone(t)
         /\ IsWhitelist
         /\ HasOrigin(t)
         /\ OriginOf(t).host.hostname \in Whitelist)
        => /\ Res(t).response.status # 400
           /\ Res(t).response.headers.AccessControlAllowOrigin # None

(***************************************************************************)
(* C9.  With several requests in flight on one shared configuration,       *)
(* interleaved at the downstream call, each request's decoration depends   *)
(* on its own request and the configuration only: no result exists before  *)
(* the request's own downstream result has come back, the allow-origin     *)
(* header is set exactly once on the result of each allowed request (and   *)
(* not at all otherwise), and its value is the decision for the request's  *)
(* own origin, not one derived from another request's.                     *)
(***************************************************************************)
C9_PerRequestDecoration ==
    \A t \in DOMAIN pc :
        /\ pc[t] \in {"idle", "received", "calling"} =>
              result[t] = None /\ downstream[t] = None
        /\ IsDone(t) =>
              IF PolicyAllows(t)
              THEN /\ SetCount(Res(t).response.headers, "AccessControlAllowOrigin") = 1
                   /\ Res(t).response.headers.AccessControlAllowOrigin =
                        Some(DecisionValue(t))
                   /\ ~IsPreflight(t) =>
                        /\ downstream[t] # None
                        /\ Res(t).kind = Down(t).kind
                        /\ Res(t).response.status = Down(t).response.status
                        /\ Res(t).response.body = Down(t).response.body
              ELSE SetCount(Res(t).response.headers, "AccessControlAllowOrigin") = 0

C9_Witness ==
    \E t, u \in DOMAIN pc :
        /\ t # u
        /\ IsWhitelist
        /\ IsDone(t) /\ IsDone(u)
        /\ PolicyAllows(t) /\ PolicyAllows(u)
        /\ ~IsPreflight(t) /\ ~IsPreflight(u)
        /\ OriginOf(t) # OriginOf(u)
        /\ Res(t).kind # Res(u).kind
        /\ Res(t).response.headers.AccessControlAllowOrigin =
             Some(AccessControlAllowOrigin_Value("http://example.com"))
        /\ Res(u).response.headers.AccessControlAllowOrigin =
             Some(AccessControlAllowOrigin_Value("http://example.com:3000"))

(***************************************************************************)
(* C10.  On every path through handle, in both modes, the downstream       *)
(* handler is invoked at most once per request, and never for a request    *)
(* that the policy rejects, preflight or not.                              *)
(***************************************************************************)
C10_DownstreamAtMostOnce ==
    \A t \in DOMAIN pc :
        /\ calls[t] <= 1
        /\ (pc[t] \in {"calling", "done"} /\ PolicyRejects(t)) =>
              /\ calls[t] = 0
              /\ downstream[t] = None
        /\ pc[t] \in {"idle", "received"} => calls[t] = 0

C10_Witness ==
    \E t \in DOMAIN pc :
        /\ IsDone(t)
        /\ PolicyRejects(t)
        /\ Req(t).method = "Options"
        /\ Req(t).headers.AccessControlRequestMethod = None
        /\ calls[t] = 0
        /\ Res(t).response.status = 400

(***************************************************************************)
(* C11.  An OPTIONS request with an Origin but no                          *)
(* Access-Control-Request-Method is not a preflight and is treated as a    *)
(* simple cross-origin request in both modes: if the origin is allowed the *)
(* downstream handler is invoked and its result is returned with the       *)
(* allow-origin header as the only header added (no allow-methods, no      *)
(* allow-headers, also when Access-Control-Request-Headers is present); if *)
(* the origin is not allowed the 400 rejection is returned.                *)
(***************************************************************************)
C11_OptionsWithoutRequestMethod ==
    \A t \in DOMAIN pc :
        (/\ IsDone(t)
         /\ Req(t).method = "Options"
         /\ HasOrigin(t)
         /\ Req(t).headers.AccessControlRequestMethod = None)
        => IF PolicyAllows(t)
           THEN /\ calls[t] = 1
                /\ downstream[t] # None
                /\ Res(t).kind = Down(t).kind
                /\ Res(t).response.status = Down(t).response.status
                /\ Res(t).response.body = Down(t).response.body
                /\ Res(t).response.headers.AccessControlAllowOrigin =
                     Some(DecisionValue(t))
                /\ Res(t).response.headers.set_log = <<"AccessControlAllowOrigin">>
                /\ Res(t).response.headers.AccessControlAllowMethods = None
                /\ Res(t).response.headers.AccessControlAllowHeaders = None
           ELSE /\ calls[t] = 0
                /\ IsRejection(Res(t), "Invalid CORS request: Origin not allowed")

C11_Witness ==
    \E t \in DOMAIN pc :
        /\ IsDone(t)
        /\ ~IsWhitelist
        /\ Req(t).method = "Options"
        /\ HasOrigin(t)
        /\ Req(t).headers.AccessControlRequestMethod = None
        /\ Req(t).headers.AccessControlRequestHeaders = Some(<<"header1", "header2">>)
        /\ calls[t] = 1
        /\ Res(t).response.status = 403
        /\ Res(t).response.headers.AccessControlAllowOrigin =
             Some(AccessControlAllowOrigin_Any)
        /\ Res(t).response.headers.AccessControlAllowHeaders = None

(***************************************************************************)
(* C12.  In whitelist mode, whenever the middleware sets                   *)
(* Access-Control-Allow-Origin (on a downstream success response, on a     *)
(* downstream error's response, or on a preflight answer), the value is a  *)
(* member of the configured whitelist and is the canonical form of the     *)
(* request's own Origin; it is never the wildcard and never an origin      *)
(* outside the whitelist.                                                  *)
(***************************************************************************)
C12_WhitelistHeaderValue ==
    \A t \in DOMAIN pc :
        (/\ IsDone(t)
         /\ IsWhitelist
         /\ SetCount(Res(t).response.headers, "AccessControlAllowOrigin") > 0)
        => /\ HasOrigin(t)
           /\ Res(t).response.headers.AccessControlAllowOrigin # None
           /\ LET acao == Res(t).response.headers.AccessControlAllowOrigin[1]
              IN  /\ acao # AccessControlAllowOrigin_Any
                  /\ acao.tag = "Value"
                  /\ acao.value \in Whitelist
                  /\ acao.value = CanonicalForm(OriginOf(t))

C12_Witness ==
    \E t \in DOMAIN pc :
        /\ IsDone(t)
        /\ IsWhitelist
        /\ Whitelist = {"http://example.com", "https://forbidden.org"}
        /\ IsPreflight(t)
        /\ OriginOf(t) = Origin_new("https", "forbidden.org", None)
        /\ SetCount(Res(t).response.headers, "AccessControlAllowOrigin") = 1
        /\ Res(t).response.headers.AccessControlAllowOrigin =
             Some(AccessControlAllowOrigin_Value("https://forbidden.org"))

\* the headers of a map other than Access-Control-Allow-Origin
OtherHeaders(headers) ==
    <<headers.Origin, headers.AccessControlRequestMethod,
      headers.AccessControlRequestHeaders, headers.AccessControlAllowMethods,
      headers.AccessControlAllowHeaders, headers.ContentType>>

(***************************************************************************)
(* C13.  On an allowed request that is not a preflight, a downstream       *)
(* result that already carries Access-Control-Allow-Origin has it          *)
(* replaced: the returned response (or error response) has exactly one     *)
(* allow-origin value, the decision's (the canonical origin in whitelist   *)
(* mode, the wildcard in allow-any mode), and every other downstream       *)
(* header is as the handler set it.  On a request without Origin a         *)
(* downstream-set allow-origin header is returned unchanged.               *)
(***************************************************************************)
C13_DownstreamHeaderReplaced ==
    \A t \in DOMAIN pc :
        /\ (IsDone(t) /\ PolicyAllows(t) /\ ~IsPreflight(t)) =>
              /\ downstream[t] # None
              /\ Res(t).response.headers.AccessControlAllowOrigin =
                   <<DecisionValue(t)>>
              /\ Len(Res(t).response.headers.AccessControlAllowOrigin) = 1
              /\ OtherHeaders(Res(t).response.headers) =
                   OtherHeaders(Down(t).response.headers)
        /\ (IsDone(t) /\ ~HasOrigin(t)) =>
              /\ downstream[t] # None
              /\ Res(t).response.headers = Down(t).response.headers

C13_Witness ==
    \E t \in DOMAIN pc :
        /\ IsDone(t)
        /\ IsWhitelist
        /\ PolicyAllows(t)
        /\ ~IsPreflight(t)
        /\ Down(t).kind = "Err"
        /\ Down(t).response.headers.AccessControlAllowOrigin =
             Some(AccessControlAllowOrigin_Value("http://downstream.example"))
        /\ Res(t).response.headers.AccessControlAllowOrigin =
             Some(AccessControlAllowOrigin_Value(CanonicalForm(OriginOf(t))))
        /\ Res(t).response.headers.ContentType = Some("text/plain")

=============================================================================
